---- MODULE Spec2Model ----
(***************************************************************************)
(* Meal-plan scheduling and slot resolution of FuelAI: the Laravel         *)
(* MealPlanController (slot store, plan activity) and the two React Native *)
(* views that use it (the meal-plan view's assignment batch and the day    *)
(* view's fetchDayData).                                                   *)
(***************************************************************************)
EXTENDS Integers, Sequences, FiniteSets, TLC

\* ------------------------------------------------------------------ bounds
\* The clock now() runs over 0..MaxTime (one unit = one second, the
\* resolution of the timestamps columns).
MaxTime == 1
\* Auto-increment ids handed out by the meal_plans and meal_plan_meals tables.
MaxPlanId == 2
MaxSlotId == 8
\* Requests handled in one behaviour.
MaxRequests == 4
\* Server processes handling requests at the same time.
MaxWorkers == 2
\* fetchDayData calls of one mounted day view
MaxFetch == 2
\* Requests of other screens handled while the day view is mounted.
MaxDayRequests == 3
\* Meals picked in the select-meal modal of one mounted meal plan view.
MaxGestures == 1
\* Requests of other screens handled while the meal plan view is mounted.
MaxViewRequests == 1
\* Assignment batches started in one mounted meal plan view, one after the
\* other.
MaxBatches == 2

\* ------------------------------------------------------------- fixed data
Users == {"alice", "bob"}
\* ids of the rows of the meals table (exists:meals,id)
Meals == {1, 2}

\* (mutant) the week begins on Sunday
DaysSundayFirst ==
    <<"Sunday", "Monday", "Tuesday", "Wednesday", "Thursday", "Friday", "Saturday">>

\* (mutant) the working days only
WorkingDays == <<"Monday", "Tuesday", "Wednesday", "Thursday", "Friday">>

daysOfWeek ==
    <<"Monday", "Tuesday", "Wednesday", "Thursday", "Friday", "Saturday", "Sunday">>
mealTimes == <<"Breakfast", "Lunch", "Dinner", "Snack">>

Range(f) == {f[i] : i \in DOMAIN f}

\* ---------------------------------------------------------- date strings
\* A string is the sequence of its characters.
Digit == <<"0", "1", "2", "3", "4", "5", "6", "7", "8", "9">>
IsDigit(c) == \E d \in 1..10 : Digit[d] = c
DigitValue(c) == (CHOOSE d \in 1..10 : Digit[d] = c) - 1

\* A JavaScript number is <<n>>; Not-a-Number is the empty tuple.
NaN == <<>>
Num(n) == <<n>>

\* undefined, as the string that parseInt makes of it
Undefined == <<"u", "n", "d", "e", "f", "i", "n", "e", "d">>

\* dateStr.split('-'): the fields between the dashes
RECURSIVE SplitFrom(_, _, _, _)
SplitFrom(str, i, field, fields) ==
    IF i > Len(str) THEN Append(fields, field)
    ELSE IF str[i] = "-" THEN SplitFrom(str, i + 1, <<>>, Append(fields, field))
    ELSE SplitFrom(str, i + 1, Append(field, str[i]), fields)

Split(str) == SplitFrom(str, 1, <<>>, <<>>)

\* const [year, month, day] = ...: a missing field is undefined
Field(fields, k) == IF k <= Len(fields) THEN fields[k] ELSE Undefined

\* parseInt(field): the number of the leading digits, NaN when there is none
RECURSIVE ParseDigits(_, _, _)
ParseDigits(str, i, acc) ==
    IF i > Len(str) \/ ~IsDigit(str[i]) THEN acc
    ELSE ParseDigits(str, i + 1, 10 * acc + DigitValue(str[i]))

ParseInt(field) ==
    IF field = <<>> THEN NaN
    ELSE IF ~IsDigit(field[1]) THEN NaN
    ELSE Num(ParseDigits(field, 1, 0))

\* Day number of January 1st of year y, counted from 1970-01-01.
DayFromYear(y) ==
    365 * (y - 1970) + ((y - 1969) \div 4) - ((y - 1901) \div 100)
        + ((y - 1601) \div 400)

InLeapYear(y) == (y % 4 = 0 /\ y % 100 # 0) \/ y % 400 = 0

\* Days before the first day of month index m (0..11)
DaysBeforeMonth(y, m) ==
    <<0, 31, 59, 90, 120, 151, 181, 212, 243, 273, 304, 334>>[m + 1]
        + (IF m >= 2 /\ InLeapYear(y) THEN 1 ELSE 0)

\* MakeDay(year, month, date) of the Date constructor; month and date carry.
MakeDay(year, month, date) ==
    LET ym == year + (month \div 12)
        mn == month % 12
    IN  DayFromYear(ym) + DaysBeforeMonth(ym, mn) + date - 1

\* new Date(year, monthIndex, day): local midnight of that day as a time
\* value in minutes since the epoch, for a process offset minutes east of
\* UTC. A year 0..99 means 1900 + year. NaN makes an invalid date.
NewDate(year, monthIndex, day, offset) ==
    IF year = NaN \/ monthIndex = NaN \/ day = NaN THEN NaN
    ELSE LET yr == IF 0 <= year[1] /\ year[1] <= 99 THEN 1900 + year[1]
                   ELSE year[1]
         IN  Num(MakeDay(yr, monthIndex[1], day[1]) * 1440 - offset)

\* LocalTime(t) of the getters
LocalDay(t, offset) == (t[1] + offset) \div 1440

\* d.getDay(): 1970-01-01 was a Thursday
GetDay(t, offset) ==
    IF t = NaN THEN NaN ELSE Num((LocalDay(t, offset) + 4) % 7)

\* parseInt(month) - 1
MonthIndex(month) == IF month = NaN THEN NaN ELSE Num(month[1] - 1)

\* new Date(parseInt(year), parseInt(month) - 1, parseInt(day))
DateOf(dateStr, offset) ==
    LET fields == Split(dateStr) IN
    NewDate(ParseInt(Field(fields, 1)), MonthIndex(ParseInt(Field(fields, 2))),
            ParseInt(Field(fields, 3)), offset)

\* getDayOfWeek(dateStr) in a process offset minutes east of UTC
getDayOfWeek(dateStr, offset) ==
    LET days == <<"Sunday", "Monday", "Tuesday", "Wednesday", "Thursday",
                  "Friday", "Saturday">>
        d == DateOf(dateStr, offset)
    IN  IF GetDay(d, offset) = NaN THEN "undefined"
        ELSE days[GetDay(d, offset)[1] + 1]

\* What the requests of the environment carry: valid and invalid values.
\* YearFromTime: the year whose days contain day number dn
YearFromDay(dn) ==
    LET a == 1970 + (dn \div 365)
        b == 1970 + (dn \div 366)
        lo == (IF a < b THEN a ELSE b) - 1
        hi == (IF a < b THEN b ELSE a) + 1
    IN  CHOOSE y \in lo..hi : DayFromYear(y) <= dn /\ dn < DayFromYear(y + 1)

\* d.getFullYear(), d.getMonth() (0..11), d.getDate() in local time
GetFullYear(t, offset) ==
    IF t = NaN THEN NaN ELSE Num(YearFromDay(LocalDay(t, offset)))

\* MonthFromTime: the month index whose days contain day number dn
MonthFromDay(dn) ==
    LET y == YearFromDay(dn)
        diy == dn - DayFromYear(y)
    IN  CHOOSE m \in 0..11 :
           /\ DaysBeforeMonth(y, m) <= diy
           /\ (m = 11 \/ diy < DaysBeforeMonth(y, m + 1))

GetMonth(t, offset) ==
    IF t = NaN THEN NaN ELSE Num(MonthFromDay(LocalDay(t, offset)))

GetDate(t, offset) ==
    IF t = NaN THEN NaN
    ELSE LET dn == LocalDay(t, offset)
             y == YearFromDay(dn)
         IN  Num(dn - DayFromYear(y) - DaysBeforeMonth(y, MonthFromDay(dn)) + 1)

\* String(n): decimal digits, no padding
RECURSIVE DigitsOf(_)
DigitsOf(n) == IF n < 10 THEN <<Digit[n + 1]>>
               ELSE Append(DigitsOf(n \div 10), Digit[(n % 10) + 1])

String(n) ==
    IF n = NaN THEN <<"N", "a", "N">>
    ELSE IF n[1] < 0 THEN <<"-">> \o DigitsOf(0 - n[1])
    ELSE DigitsOf(n[1])

\* str.padStart(2, '0')
PadStart2(str) == IF Len(str) < 2 THEN <<"0">> \o str ELSE str

\* dateStr.match(/^\d{4}-\d{2}-\d{2}$/)
MatchesYmd(dateStr) ==
    /\ Len(dateStr) = 10
    /\ \A i \in {1, 2, 3, 4, 6, 7, 9, 10} : IsDigit(dateStr[i])
    /\ dateStr[5] = "-"
    /\ dateStr[8] = "-"

\* d.getMonth() + 1
PlusOne(n) == IF n = NaN THEN NaN ELSE Num(n[1] + 1)

\* formatDateForComparison, the branch that parses and formats
FormatParsed(dateStr, offset) ==
    LET d == DateOf(dateStr, offset)
        yyyy == String(GetFullYear(d, offset))
        mm == PadStart2(String(PlusOne(GetMonth(d, offset))))
        dd == PadStart2(String(GetDate(d, offset)))
    IN  yyyy \o <<"-">> \o mm \o <<"-">> \o dd

\* formatDateForComparison(dateStr)
formatDateForComparison(dateStr, offset) ==
    IF MatchesYmd(dateStr) THEN dateStr ELSE FormatParsed(dateStr, offset)

ReqPlanIds == 1..MaxPlanId
\* <<meal_id, day_of_week, meal_time>> of the addMeal requests
ReqAddMeal ==
    {<<1, "Monday", "Breakfast">>, <<2, "Monday", "Breakfast">>,
     <<1, "Wednesday", "Breakfast">>, <<2, "Wednesday", "Breakfast">>,
     <<9, "Monday", "Breakfast">>, <<1, "Funday", "Breakfast">>,
     <<1, "Monday", "Brunch">>}

VARIABLES
    plans,       \* rows of meal_plans: [id, user_id, created_at, updated_at]
    slots,       \* rows of meal_plan_meals
    now,         \* the server clock
    nextPlanId,  \* auto-increment of meal_plans
    nextSlotId,  \* auto-increment of meal_plan_meals
    last,        \* the response to the request handled last
    nreq,        \* requests handled so far
    workers,     \* the addMeal request each server process is handling
    assigned,    \* history: <<plan, day, time, meal>> of the last successful
                 \* addMeal of each triple not removed since
    taskTable,   \* rows of tasks: [id, user_id, deadline, is_completed]
    tz,          \* minutes east of UTC of the process showing the day view
    date,        \* day view: the date route parameter (dateKey)
    loading,     \* day view: useState loading
    meals,       \* day view: useState meals
    tasks,       \* day view: useState tasks
    fetches,     \* day view: the fetchDayData / toggleTaskCompletion calls
    view,        \* meal plan view: the route parameter id and its useState
    call         \* meal plan view: the handler call in progress

storeVars == <<plans, slots, now, nextPlanId, nextSlotId>>
dayVars == <<taskTable, tz, date, loading, meals, tasks, fetches>>
viewVars == <<view, call>>
clientVars == <<dayVars, viewVars>>
serverVars == <<storeVars, last, nreq, workers, assigned>>
vars == <<plans, slots, now, nextPlanId, nextSlotId, last, nreq, workers, assigned,
          taskTable, tz, date, loading, meals, tasks, fetches, view, call>>

NoResponse == [op |-> "none", status |-> 0]

\* response()->json(..., status) of handler op
Response(op, status) == [op |-> op, status |-> status]

\* ------------------------------------------------------------ slot store
PlansOf(u) == {p \in plans : p.user_id = u}

\* (mutant) the plan is looked up by id alone
OwnedPlanAnyUser(u, id) == {p \in plans : p.id = id}

\* MealPlan::where('id', $id)->where('user_id', auth()->id())
OwnedPlan(u, id) == {p \in plans : p.id = id /\ p.user_id = u}

\* (mutant) the day_of_week rule is left out
ValidatedNoDay(meal_id, day_of_week, meal_time) ==
    /\ meal_id \in Meals
    /\ meal_time \in Range(mealTimes)

\* $request->validate([...]) of addMeal
Validated(meal_id, day_of_week, meal_time) ==
    /\ meal_id \in Meals
    /\ day_of_week \in Range(daysOfWeek)
    /\ meal_time \in Range(mealTimes)

\* (mutant) the lookup leaves out the day
ExistingAnyDay(id, day_of_week, meal_time) ==
    {s \in slots : s.meal_plan_id = id /\ s.meal_time = meal_time}

\* MealPlanMeal::where(meal_plan_id)->where(day_of_week)->where(meal_time)
Existing(id, day_of_week, meal_time) ==
    {s \in slots : /\ s.meal_plan_id = id
                   /\ s.day_of_week = day_of_week
                   /\ s.meal_time = meal_time}

Assign(id, meal_id, day_of_week, meal_time) ==
    {a \in assigned : ~(a[1] = id /\ a[2] = day_of_week /\ a[3] = meal_time)}
        \cup {<<id, day_of_week, meal_time, meal_id>>}

\* (mutant) the row is replaced by a new row instead of updated
ReplaceSlot(existing, meal_id) ==
    (slots \ {existing})
        \cup {[existing EXCEPT !.id = nextSlotId, !.meal_id = meal_id,
                               !.created_at = now, !.updated_at = now]}

\* $existing->update(['meal_id' => ..., 'updated_at' => now()])
UpdateSlot(existing, meal_id) ==
    (slots \ {existing})
        \cup {[existing EXCEPT !.meal_id = meal_id, !.updated_at = now]}

\* MealPlanMeal::create([...])
CreateSlot(id, meal_id, day_of_week, meal_time) ==
    slots \cup {[id |-> nextSlotId, meal_plan_id |-> id, meal_id |-> meal_id,
                 day_of_week |-> day_of_week, meal_time |-> meal_time,
                 created_at |-> now, updated_at |-> now]}

\* (mutant) addMeal touches the plan
PlansTouchedByAddMeal(id) ==
    {IF p.id = id THEN [p EXCEPT !.updated_at = now] ELSE p : p \in plans}

\* The meal_plans rows after addMeal: it reads the plan and writes
\* meal_plan_meals only.
PlansAfterAddMeal(id) == plans

\* MealPlanController::addMeal, the whole handler in one step.
AddMeal(u, id, meal_id, day_of_week, meal_time) ==
    /\ plans' = PlansAfterAddMeal(id)
    /\ UNCHANGED <<now, nextPlanId>>
    /\ IF ~Validated(meal_id, day_of_week, meal_time)
       THEN /\ last' = Response("addMeal", 422)
            /\ UNCHANGED <<slots, nextSlotId, assigned>>
       ELSE IF OwnedPlan(u, id) = {}
       THEN /\ last' = Response("addMeal", 404)
            /\ UNCHANGED <<slots, nextSlotId, assigned>>
       ELSE IF Existing(id, day_of_week, meal_time) # {}
       THEN /\ \E existing \in Existing(id, day_of_week, meal_time) :
                 slots' = UpdateSlot(existing, meal_id)
            /\ last' = Response("addMeal", 200)
            /\ assigned' = Assign(id, meal_id, day_of_week, meal_time)
            /\ UNCHANGED nextSlotId
       ELSE /\ nextSlotId <= MaxSlotId
            /\ slots' = CreateSlot(id, meal_id, day_of_week, meal_time)
            /\ nextSlotId' = nextSlotId + 1
            /\ last' = Response("addMeal", 201)
            /\ assigned' = Assign(id, meal_id, day_of_week, meal_time)

\* MealPlan::create([...]) of store: both timestamps are set to now().
NewPlan(u) ==
    [id |-> nextPlanId, user_id |-> u, created_at |-> now, updated_at |-> now]

\* MealPlanController::store; name is 'required|string|max:255'.
Store(u, name) ==
    /\ UNCHANGED <<slots, now, nextSlotId, assigned>>
    /\ IF name = ""
       THEN /\ last' = Response("store", 422)
            /\ UNCHANGED <<plans, nextPlanId>>
       ELSE /\ nextPlanId <= MaxPlanId
            /\ plans' = plans \cup {NewPlan(u)}
            /\ nextPlanId' = nextPlanId + 1
            /\ last' = Response("store", 201)

\* (mutant) the slot rows stay when the plan row is deleted
SlotsKeptAfterPlanDelete(id) == slots

\* The slot rows left when the plan row id is deleted: the plan's slot
\* assignments go with it.
SlotsAfterPlanDelete(id) == {s \in slots : s.meal_plan_id # id}

\* MealPlanController::destroy
Destroy(u, id) ==
    /\ UNCHANGED <<now, nextPlanId, nextSlotId>>
    /\ IF OwnedPlan(u, id) = {}
       THEN /\ last' = Response("destroy", 404)
            /\ UNCHANGED <<plans, slots, assigned>>
       ELSE /\ plans' = plans \ OwnedPlan(u, id)
            /\ slots' = SlotsAfterPlanDelete(id)
            /\ assigned' = {a \in assigned : a[1] # id}
            /\ last' = Response("destroy", 200)

\* (mutant) the touch saves nothing
TouchPlanUnsaved(p) == p

\* $mealPlan->touch(): updated_at = now()
TouchPlan(p) == [p EXCEPT !.updated_at = now]

\* (mutant) the owner is not checked
OwnsAny(u, mealPlan) == TRUE

\* $mealPlan->user_id !== auth()->id(), negated
Owns(u, mealPlan) == mealPlan.user_id = u

\* MealPlanController::touch
Touch(u, id) ==
    /\ UNCHANGED <<slots, now, nextPlanId, nextSlotId, assigned>>
    /\ IF {p \in plans : p.id = id} = {}
       THEN /\ last' = Response("touch", 404)
            /\ UNCHANGED plans
       ELSE \E mealPlan \in {p \in plans : p.id = id} :
              IF ~Owns(u, mealPlan)
              THEN /\ last' = Response("touch", 403)
                   /\ UNCHANGED plans
              ELSE /\ plans' = (plans \ {mealPlan}) \cup {TouchPlan(mealPlan)}
                   /\ last' = Response("touch", 200)

\* MealPlanController::removeMeal
RemoveMeal(u, mealPlanMealId) ==
    /\ UNCHANGED <<plans, now, nextPlanId, nextSlotId>>
    /\ IF {s \in slots : s.id = mealPlanMealId} = {}
       THEN /\ last' = Response("removeMeal", 404)
            /\ UNCHANGED <<slots, assigned>>
       ELSE \E mealPlanMeal \in {s \in slots : s.id = mealPlanMealId} :
              IF OwnedPlan(u, mealPlanMeal.meal_plan_id) = {}
              THEN /\ last' = Response("removeMeal", 404)
                   /\ UNCHANGED <<slots, assigned>>
              ELSE /\ slots' = slots \ {mealPlanMeal}
                   /\ assigned' =
                        {a \in assigned :
                            ~(/\ a[1] = mealPlanMeal.meal_plan_id
                              /\ a[2] = mealPlanMeal.day_of_week
                              /\ a[3] = mealPlanMeal.meal_time)}
                   /\ last' = Response("removeMeal", 200)

\* One second passes on the server.
Tick ==
    /\ now < MaxTime
    /\ now' = now + 1
    /\ UNCHANGED <<plans, slots, nextPlanId, nextSlotId, last, nreq, workers, assigned>>
    /\ UNCHANGED clientVars

\* ------------------------------------------------- plan activity tracker
\* All orders in which the rows of S can be listed.
Orders(S) ==
    {f \in [1..Cardinality(S) -> S] :
        \A i, j \in 1..Cardinality(S) : i # j => f[i] # f[j]}

\* MealPlanController::index: the user's plans, orderBy('created_at', 'desc').
\* The order among rows with equal created_at is the database's choice.
Index(u) ==
    {f \in Orders(PlansOf(u)) :
        \A i \in 1..(Len(f) - 1) : f[i].created_at >= f[i + 1].created_at}

\* (mutant) the comparator sorts oldest first
CompareAscending(a, b) == a.updated_at - b.updated_at

\* The comparator of fetchDayData's sort.
Compare(a, b) == b.updated_at - a.updated_at

\* Array.prototype.sort is stable: x goes behind every element it does not
\* strictly precede.
RECURSIVE InsertSorted(_, _)
InsertSorted(sorted, x) ==
    IF sorted = <<>> THEN <<x>>
    ELSE IF Compare(sorted[Len(sorted)], x) <= 0
         THEN Append(sorted, x)
         ELSE Append(InsertSorted(SubSeq(sorted, 1, Len(sorted) - 1), x),
                     sorted[Len(sorted)])

RECURSIVE SortFrom(_, _, _)
SortFrom(meal_plans, i, sorted) ==
    IF i > Len(meal_plans) THEN sorted
    ELSE SortFrom(meal_plans, i + 1, InsertSorted(sorted, meal_plans[i]))

\* mealPlansData.meal_plans.sort((a, b) => b.updated_at - a.updated_at)
SortedPlans(meal_plans) == SortFrom(meal_plans, 1, <<>>)

NoPlan == [id |-> 0, user_id |-> "", created_at |-> 0, updated_at |-> 0]

\* sortedPlans[0] when sortedPlans.length > 0: the plan the day view takes
\* as active.
MostRecentPlan(meal_plans) ==
    IF Len(SortedPlans(meal_plans)) > 0 THEN SortedPlans(meal_plans)[1] ELSE NoPlan

\* The plans a fetch of the day view can pick as active for user u.
ActivePlans(u) == {MostRecentPlan(r) : r \in Index(u)}

Idle == [pc |-> "idle", id |-> 0, meal_id |-> 0, day_of_week |-> "",
         meal_time |-> "", existing |-> 0]

\* The server with empty tables and no request handled.
InitServer ==
    /\ plans = {}
    /\ slots = {}
    /\ now = 0
    /\ nextPlanId = 1
    /\ nextSlotId = 1
    /\ last = NoResponse
    /\ nreq = 0
    /\ workers = [w \in 1..MaxWorkers |-> Idle]
    /\ assigned = {}

\* a fetchDayData call that has not been made
NoFetch == [pc |-> "idle", dateKey |-> <<>>, dayOfWeek |-> "",
            sortedPlans |-> <<>>, failed |-> FALSE, taskId |-> 0,
            is_completed |-> FALSE]

\* The day view as mounted: useState(true), useState([]), useState([])
InitDayView ==
    /\ loading = TRUE
    /\ meals = {}
    /\ tasks = {}
    /\ fetches = [f \in 1..MaxFetch |-> NoFetch]

\* no slot selected
NoSlot == [day |-> "", time |-> ""]

\* no handler call in progress
\* (fetched: the last getMealPlan request of the view was answered ok)
NoCall == [pc |-> "idle", meal |-> 0, slot |-> NoSlot, repeat |-> FALSE,
           i |-> 0, before |-> {}, n |-> 0, fetched |-> FALSE]

\* The meal plan view of plan id as mounted: the useState defaults, and
\* fetchMealPlan of the effect under way.
MealPlanView(id) ==
    [id |-> id, mealPlanMeals |-> {}, loading |-> TRUE, isSubmitting |-> FALSE,
     showSelectMeal |-> FALSE, selectedSlot |-> NoSlot,
     repeatForAllDays |-> FALSE, alert |-> ""]

InitMealPlanView ==
    /\ view = MealPlanView(1)
    /\ call = [NoCall EXCEPT !.pc = "mounting"]

Init ==
    /\ InitServer
    /\ InitDayView
    /\ InitMealPlanView
    /\ taskTable = {}
    /\ tz = 0
    /\ date = <<>>

\* ------------------------------------------------------------ the day view
\* The signed-in user of the mobile client (session.access_token).
SessionUser == "alice"

\* a task without deadline
Null == <<"n", "u", "l", "l">>

\* GET /tasks: the tasks of the user
GetTasks(u) == {t \in taskTable : t.user_id = u}

\* PUT /tasks/{id} {is_completed}: the task of the user, completion set
UpdateTask(u, taskId, is_completed) ==
    {IF t.id = taskId /\ t.user_id = u
     THEN [t EXCEPT !.is_completed = is_completed] ELSE t : t \in taskTable}

\* (mutant) the answer carries no slots
ShowNothing(u, id) == {}

\* GET /meal-plans/{id}: the plan of the user with its slots, or 404
Show(u, id) == {s \in slots : s.meal_plan_id = id /\ OwnedPlan(u, id) # {}}

\* (mutant) the meals of the active plan are not filtered by day
DayMealsAnyDay(meal_plan_meals, dayOfWeek) == meal_plan_meals

\* activePlan.meal_plan_meals.filter(mpm => mpm.day_of_week === dayOfWeek)
DayMeals(meal_plan_meals, dayOfWeek) ==
    {mpm \in meal_plan_meals : mpm.day_of_week = dayOfWeek}

\* formatDateForComparison(task.deadline)
TaskDate(deadline, offset) == formatDateForComparison(deadline, offset)

\* tasksData.tasks.filter(...): deadline set and on the target date
DayTasks(tasksData, dateKey, offset) ==
    {task \in tasksData :
        /\ task.deadline # Null
        /\ task.deadline # <<>>
        /\ TaskDate(task.deadline, offset) = formatDateForComparison(dateKey, offset)}

\* no meal for a meal time
NoMeal == [id |-> 0, meal_plan_id |-> 0, meal_id |-> 0, day_of_week |-> "",
           meal_time |-> "", created_at |-> 0, updated_at |-> 0]

\* meals.find(m => m.meal_time === mealTime): the first match, rows by id
getMealForTime(mealTime) ==
    LET found == {m \in meals : m.meal_time = mealTime} IN
    IF found = {} THEN NoMeal
    ELSE CHOOSE m \in found : \A o \in found : m.id <= o.id

\* The next call of the view takes the first unused record.
FreeFetch(f) ==
    /\ fetches[f].pc = "idle"
    /\ \A g \in 1..MaxFetch : g < f => fetches[g].pc # "idle"

\* fetchDayData up to the first await, with the dateKey and dayOfWeek of
\* the render that made the closure.
Begin(dateKey) ==
    [NoFetch EXCEPT !.pc = "getMealPlans", !.dateKey = dateKey,
                    !.dayOfWeek = getDayOfWeek(dateKey, tz)]

\* useEffect(() => { fetchDayData() }, [dateKey]): on mount and whenever
\* the date parameter changes.
DateEffect(f, dateKey) ==
    /\ FreeFetch(f)
    /\ IF f = 1 THEN dateKey = date ELSE dateKey # date
    /\ date' = dateKey
    /\ loading' = TRUE
    /\ fetches' = [fetches EXCEPT ![f] = Begin(dateKey)]
    /\ UNCHANGED <<meals, tasks, taskTable, tz>>
    /\ UNCHANGED <<serverVars, viewVars>>

\* toggleTaskCompletion(taskId, currentStatus) up to await api.updateTask;
\* the list is rendered only when not loading.
ToggleTaskCompletion(f, task) ==
    /\ FreeFetch(f)
    /\ ~loading
    /\ task \in tasks
    /\ fetches' = [fetches EXCEPT ![f] =
          [Begin(date) EXCEPT !.pc = "updateTask", !.taskId = task.id,
                              !.is_completed = ~task.is_completed]]
    /\ UNCHANGED <<date, loading, meals, tasks, taskTable, tz>>
    /\ UNCHANGED <<serverVars, viewVars>>

\* updateTask answered: await fetchDayData()
ToggleDone(f) ==
    /\ fetches[f].pc = "updateTask"
    /\ taskTable' = UpdateTask(SessionUser, fetches[f].taskId,
                               fetches[f].is_completed)
    /\ loading' = TRUE
    /\ fetches' = [fetches EXCEPT ![f].pc = "getMealPlans"]
    /\ UNCHANGED <<date, meals, tasks, tz>>
    /\ UNCHANGED <<serverVars, viewVars>>

\* getMealPlans answered: sort, then ask for the first plan or for the tasks
FetchMealPlans(f) ==
    /\ fetches[f].pc = "getMealPlans"
    /\ \E meal_plans \in Index(SessionUser) :
         LET sortedPlans == SortedPlans(meal_plans) IN
         fetches' = [fetches EXCEPT
            ![f].sortedPlans = sortedPlans,
            ![f].pc = IF Len(sortedPlans) > 0 THEN "getMealPlan" ELSE "getTasks"]
    /\ UNCHANGED <<date, loading, meals, tasks, taskTable, tz>>
    /\ UNCHANGED <<serverVars, viewVars>>

\* setLoading(false) of finally, after the catch
Caught(f) ==
    /\ loading' = FALSE
    /\ fetches' = [fetches EXCEPT ![f].pc = "done", ![f].failed = TRUE]

\* getMealPlan(sortedPlans[0].id) answered: setMeals(dayMeals), or the
\* request throws on 404
FetchMealPlan(f) ==
    /\ fetches[f].pc = "getMealPlan"
    /\ LET id == fetches[f].sortedPlans[1].id IN
       IF OwnedPlan(SessionUser, id) = {}
       THEN Caught(f) /\ UNCHANGED meals
       ELSE /\ meals' = DayMeals(Show(SessionUser, id), fetches[f].dayOfWeek)
            /\ fetches' = [fetches EXCEPT ![f].pc = "getTasks"]
            /\ UNCHANGED loading
    /\ UNCHANGED <<date, tasks, taskTable, tz>>
    /\ UNCHANGED <<serverVars, viewVars>>

\* getTasks answered: setTasks(dayTasks), then setLoading(false)
FetchTasks(f) ==
    /\ fetches[f].pc = "getTasks"
    /\ tasks' = DayTasks(GetTasks(SessionUser), fetches[f].dateKey, tz)
    /\ loading' = FALSE
    /\ fetches' = [fetches EXCEPT ![f].pc = "done"]
    /\ UNCHANGED <<date, meals, taskTable, tz>>
    /\ UNCHANGED <<serverVars, viewVars>>

\* a request of the call fails (no answer, or an answer that is not ok)
FetchThrows(f) ==
    /\ fetches[f].pc \in {"getMealPlans", "getMealPlan", "getTasks"}
    /\ Caught(f)
    /\ UNCHANGED <<date, meals, tasks, taskTable, tz>>
    /\ UNCHANGED <<serverVars, viewVars>>

\* updateTask fails: the alert, no refetch
ToggleThrows(f) ==
    /\ fetches[f].pc = "updateTask"
    /\ fetches' = [fetches EXCEPT ![f].pc = "done", ![f].failed = TRUE]
    /\ UNCHANGED <<date, loading, meals, tasks, taskTable, tz>>
    /\ UNCHANGED <<serverVars, viewVars>>

\* ------------------------------------------------------ the meal plan view
\* handleSlotClick(day, time): a cell of the grid, which is behind the
\* modal and not rendered while loading
HandleSlotClick(day, time) ==
    /\ ~view.loading
    /\ ~view.showSelectMeal
    /\ view' = [view EXCEPT !.selectedSlot = [day |-> day, time |-> time],
                            !.repeatForAllDays = FALSE,
                            !.showSelectMeal = TRUE]
    /\ UNCHANGED <<call, serverVars, dayVars>>

\* the Switch of the modal: onValueChange={setRepeatForAllDays}
SetRepeatForAllDays(value) ==
    /\ view.showSelectMeal
    /\ view.repeatForAllDays # value
    /\ view' = [view EXCEPT !.repeatForAllDays = value]
    /\ UNCHANGED <<call, serverVars, dayVars>>

\* Cancel of the modal, disabled while submitting
CancelSelectMeal ==
    /\ view.showSelectMeal
    /\ ~view.isSubmitting
    /\ view' = [view EXCEPT !.showSelectMeal = FALSE]
    /\ UNCHANGED <<call, serverVars, dayVars>>

\* (mutant) the meal buttons stay enabled while submitting
HandleAddMealToSlotEnabled(meal) ==
    /\ view.showSelectMeal
    /\ view.selectedSlot # NoSlot
    /\ view' = [view EXCEPT !.isSubmitting = TRUE]
    /\ call' = [pc |-> "adding", meal |-> meal, slot |-> view.selectedSlot,
                repeat |-> view.repeatForAllDays, i |-> 1, before |-> slots,
                n |-> call.n + 1, fetched |-> call.fetched]
    /\ UNCHANGED <<serverVars, dayVars>>

\* handleAddMealToSlot(meal) up to the first await; the meal buttons are
\* disabled while submitting.
HandleAddMealToSlot(meal) ==
    /\ view.showSelectMeal
    /\ ~view.isSubmitting
    /\ call.pc = "idle"
    /\ view.selectedSlot # NoSlot
    /\ view' = [view EXCEPT !.isSubmitting = TRUE]
    /\ call' = [pc |-> "adding", meal |-> meal, slot |-> view.selectedSlot,
                repeat |-> view.repeatForAllDays, i |-> 1, before |-> slots,
                n |-> call.n + 1, fetched |-> call.fetched]
    /\ UNCHANGED <<serverVars, dayVars>>

\* (mutant) every request of the loop is for the day of the slot
DayOfSlot == call.slot.day

\* the day of the request awaited: daysOfWeek in order, or the slot's day
DayOfCall == IF call.repeat THEN daysOfWeek[call.i] ELSE call.slot.day

\* (mutant) a request answered not ok is sent again
AddMealToPlanRetrying ==
    /\ call.pc = "adding"
    /\ AddMeal(SessionUser, view.id, call.meal, DayOfCall, call.slot.time)
    /\ IF last'.status \notin {200, 201}
       THEN UNCHANGED <<view, call>>
       ELSE IF call.repeat /\ call.i < Len(daysOfWeek)
       THEN /\ call' = [call EXCEPT !.i = call.i + 1]
            /\ UNCHANGED view
       ELSE /\ view' = [view EXCEPT !.alert = "Success",
                                    !.showSelectMeal = FALSE,
                                    !.selectedSlot = NoSlot,
                                    !.loading = TRUE]
            /\ call' = [call EXCEPT !.pc = "fetching"]
    /\ UNCHANGED <<nreq, workers, dayVars>>

\* api.addMealToPlan answered. Not ok: request throws, the catch alerts and
\* finally clears isSubmitting. Ok: the next day of the loop, or after the
\* last one the success alert, the modal closed and fetchMealPlan awaited.
AddMealToPlan ==
    /\ call.pc = "adding"
    /\ AddMeal(SessionUser, view.id, call.meal, DayOfCall, call.slot.time)
    /\ IF last'.status \notin {200, 201}
       THEN /\ view' = [view EXCEPT !.alert = "Error", !.isSubmitting = FALSE]
            /\ call' = [call EXCEPT !.pc = "idle"]
       ELSE IF call.repeat /\ call.i < Len(daysOfWeek)
       THEN /\ call' = [call EXCEPT !.i = call.i + 1]
            /\ UNCHANGED view
       ELSE /\ view' = [view EXCEPT !.alert = "Success",
                                    !.showSelectMeal = FALSE,
                                    !.selectedSlot = NoSlot,
                                    !.loading = TRUE]
            /\ call' = [call EXCEPT !.pc = "fetching"]
    /\ UNCHANGED <<nreq, workers, dayVars>>

\* api.addMealToPlan fails without an answer
AddMealToPlanThrows ==
    /\ call.pc = "adding"
    /\ view' = [view EXCEPT !.alert = "Error", !.isSubmitting = FALSE]
    /\ call' = [call EXCEPT !.pc = "idle"]
    /\ UNCHANGED <<serverVars, dayVars>>

\* fetchMealPlan answered, of the mount effect or of handleAddMealToSlot:
\* setMealPlanMeals on success, the catch logs otherwise; setLoading(false),
\* and finally of the handler clears isSubmitting.
fetchMealPlan ==
    /\ call.pc \in {"mounting", "fetching"}
    /\ \E ok \in {TRUE, FALSE} :
         LET fetched == ok /\ OwnedPlan(SessionUser, view.id) # {} IN
         /\ view' = [view EXCEPT
               !.mealPlanMeals = IF fetched THEN Show(SessionUser, view.id) ELSE @,
               !.loading = FALSE,
               !.isSubmitting = FALSE]
         /\ call' = [call EXCEPT !.pc = "idle", !.fetched = fetched]
    /\ UNCHANGED <<serverVars, dayVars>>

\* One more request arrives.
Arrive ==
    /\ nreq < MaxRequests
    /\ nreq' = nreq + 1

\* A server process handles the whole request in one step.
Atomic == Arrive /\ UNCHANGED <<workers, clientVars>>

\* Requests are handled one at a time, each handler in one step.
Next ==
    \/ \E u \in Users, id \in ReqPlanIds, r \in ReqAddMeal :
         Atomic /\ AddMeal(u, id, r[1], r[2], r[3])
    \/ \E u \in Users, name \in {"", "Plan"} : Atomic /\ Store(u, name)
    \/ \E u \in Users, id \in ReqPlanIds : Atomic /\ Destroy(u, id)
    \/ \E u \in Users, id \in ReqPlanIds : Atomic /\ Touch(u, id)
    \/ \E u \in Users, id \in 1..nextSlotId : Atomic /\ RemoveMeal(u, id)
    \/ Tick

Spec == Init /\ [][Next]_vars

\* ------------------------------------------- addMeal handlers in parallel
\* addMeal up to the lookup of the existing slot: validate, firstOrFail on
\* the owned plan, then ->first() on the triple.
AddMealFind(w, u, id, meal_id, day_of_week, meal_time) ==
    /\ workers[w].pc = "idle"
    /\ UNCHANGED <<plans, slots, now, nextPlanId, nextSlotId, assigned, clientVars>>
    /\ IF ~Validated(meal_id, day_of_week, meal_time)
       THEN /\ last' = Response("addMeal", 422)
            /\ UNCHANGED workers
       ELSE IF OwnedPlan(u, id) = {}
       THEN /\ last' = Response("addMeal", 404)
            /\ UNCHANGED workers
       ELSE /\ \E existing \in
                   IF Existing(id, day_of_week, meal_time) = {} THEN {0}
                   ELSE {s.id : s \in Existing(id, day_of_week, meal_time)} :
                 workers' = [workers EXCEPT ![w] =
                    [pc |-> "found", id |-> id, meal_id |-> meal_id,
                     day_of_week |-> day_of_week, meal_time |-> meal_time,
                     existing |-> existing]]
            /\ UNCHANGED last

\* addMeal from if ($existing) on: update the row found, or create one.
AddMealWrite(w) ==
    LET req == workers[w] IN
    /\ req.pc = "found"
    /\ workers' = [workers EXCEPT ![w] = Idle]
    /\ UNCHANGED <<plans, now, nextPlanId, nreq, clientVars>>
    /\ IF req.existing # 0
       THEN /\ slots' =
                 {IF s.id = req.existing
                  THEN [s EXCEPT !.meal_id = req.meal_id, !.updated_at = now]
                  ELSE s : s \in slots}
            /\ last' = Response("addMeal", 200)
            /\ assigned' = Assign(req.id, req.meal_id, req.day_of_week, req.meal_time)
            /\ UNCHANGED nextSlotId
       ELSE /\ nextSlotId <= MaxSlotId
            /\ slots' = CreateSlot(req.id, req.meal_id, req.day_of_week, req.meal_time)
            /\ nextSlotId' = nextSlotId + 1
            /\ last' = Response("addMeal", 201)
            /\ assigned' = Assign(req.id, req.meal_id, req.day_of_week, req.meal_time)

\* Requests are handled by MaxWorkers server processes at the same time; an
\* addMeal takes two steps, between which other requests are served.
NextConcurrent ==
    \/ \E w \in 1..MaxWorkers, u \in Users, id \in ReqPlanIds, r \in ReqAddMeal :
         Arrive /\ AddMealFind(w, u, id, r[1], r[2], r[3])
    \/ \E w \in 1..MaxWorkers : AddMealWrite(w)
    \/ \E u \in Users, name \in {"", "Plan"} : Atomic /\ Store(u, name)
    \/ \E u \in Users, id \in 1..nextSlotId : Atomic /\ RemoveMeal(u, id)
    \/ Tick

SpecConcurrent == Init /\ [][NextConcurrent]_vars

\* ------------------------------------------- the day view and the server
\* "YYYY-MM-DD" of a year, month and day
Ymd(y, m, d) ==
    LET yy == DigitsOf(y)
        yyyy == IF Len(yy) = 1 THEN <<"0", "0", "0">> \o yy
                ELSE IF Len(yy) = 2 THEN <<"0", "0">> \o yy
                ELSE IF Len(yy) = 3 THEN <<"0">> \o yy ELSE yy
    IN  yyyy \o <<"-">> \o PadStart2(DigitsOf(m)) \o <<"-">> \o PadStart2(DigitsOf(d))

\* the time of day of a serialised datetime
TimeOfDay == <<"T", "2", "3", ":", "5", "9", ":", "0", "0", "Z">>

\* Dates opened from the calendar: a Wednesday and a Friday
DayDates == {Ymd(2024, 3, 6), Ymd(2024, 3, 1)}
\* the offset of the device showing the day view
DayOffsets == {-480}

DayTaskTable ==
    {[id |-> 1, user_id |-> "alice", deadline |-> Ymd(2024, 3, 6) \o TimeOfDay,
      is_completed |-> FALSE],
     [id |-> 2, user_id |-> "alice", deadline |-> Null, is_completed |-> FALSE],
     [id |-> 3, user_id |-> "bob", deadline |-> Ymd(2024, 3, 6),
      is_completed |-> FALSE]}

DayReqAddMeal ==
    {<<1, "Wednesday", "Breakfast">>, <<2, "Wednesday", "Breakfast">>,
     <<1, "Friday", "Lunch">>}

InitDay ==
    /\ InitServer
    /\ InitDayView
    /\ InitMealPlanView
    /\ taskTable = DayTaskTable
    /\ tz \in DayOffsets
    /\ date \in DayDates

\* a request of another screen or device handled by the server
Served == nreq < MaxDayRequests /\ Arrive /\ UNCHANGED <<workers, clientVars>>

NextDay ==
    \/ \E f \in 1..MaxFetch, dateKey \in DayDates : DateEffect(f, dateKey)
    \/ \E f \in 1..MaxFetch, task \in tasks : ToggleTaskCompletion(f, task)
    \/ \E f \in 1..MaxFetch : ToggleDone(f)
    \/ \E f \in 1..MaxFetch : ToggleThrows(f)
    \/ \E f \in 1..MaxFetch : FetchMealPlans(f)
    \/ \E f \in 1..MaxFetch : FetchMealPlan(f)
    \/ \E f \in 1..MaxFetch : FetchTasks(f)
    \/ \E f \in 1..MaxFetch : FetchThrows(f)
    \/ \E u \in Users : Served /\ Store(u, "Plan")
    \/ \E id \in ReqPlanIds, r \in DayReqAddMeal :
         Served /\ AddMeal(SessionUser, id, r[1], r[2], r[3])
    \/ \E id \in ReqPlanIds : Served /\ Destroy(SessionUser, id)
    \/ \E id \in ReqPlanIds : Served /\ Touch(SessionUser, id)
    \/ Tick

SpecDay == InitDay /\ [][NextDay]_vars

\* ---------------------------------------------------------------- claims
SameTriple(s1, s2) ==
    /\ s1.meal_plan_id = s2.meal_plan_id
    /\ s1.day_of_week = s2.day_of_week
    /\ s1.meal_time = s2.meal_time

\* C1: with addMeal calls handled one at a time, every (plan, day, time)
\* triple has at most one slot, and a triple assigned and not removed since
\* has exactly one slot, whose meal_id is that of the last successful call;
\* no other triple has a slot.
C1_OneSlotLastMeal ==
    /\ \A s1, s2 \in slots : SameTriple(s1, s2) => s1 = s2
    /\ {<<s.meal_plan_id, s.day_of_week, s.meal_time, s.meal_id>> : s \in slots}
          = assigned

\* A slot created with one meal has been overwritten with another.
C1_Witness ==
    /\ last = Response("addMeal", 200)
    /\ \E s \in slots : s.created_at < s.updated_at /\ s.meal_id = 2
    /\ Cardinality(slots) = 2

\* C5: mostRecentPlan of the day view returns a plan of the user whose
\* updated_at is the maximum among the user's plans, and none exactly when
\* the user has no plans.
C5_MostRecentIsMax ==
    \A u \in Users : \A r \in Index(u) :
        LET m == MostRecentPlan(r)
            mine == {p \in plans : p.user_id = u}
        IN  /\ (m = NoPlan) <=> (mine = {})
            /\ m # NoPlan =>
                  /\ m \in mine
                  /\ \A q \in mine : q.updated_at <= m.updated_at

\* The plan index lists first is not the most recently updated one.
C5_Witness ==
    \E u \in Users : \E r \in Index(u) :
        /\ Len(r) = 2
        /\ r[1].updated_at < r[2].updated_at
        /\ MostRecentPlan(r) = r[2]

ActiveIds(u) == {m.id : m \in ActivePlans(u)}

\* C2: with addMeal requests for the same triple handled at the same time,
\* every (plan, day, time) triple still has at most one slot.
C2_OneSlotConcurrent ==
    \A s1, s2 \in slots : SameTriple(s1, s2) => s1.id = s2.id

C10_NotOwnedNoWrite ==
    [][\/ /\ last' = Response("addMeal", 404)
          /\ slots' = slots
          /\ plans' = plans
       \/ last'.op # "addMeal"
       \/ \A u \in Users, id \in ReqPlanIds :
            (~\E p \in plans : p.id = id /\ p.user_id = u) =>
               \A r \in ReqAddMeal :
                  ~( /\ r[1] \in Meals
                     /\ r[2] \in Range(daysOfWeek)
                     /\ r[3] \in Range(mealTimes)
                     /\ AddMeal(u, id, r[1], r[2], r[3]) )]_vars

\* An addMeal was refused with 404 while plans and slots exist.
C10_Witness ==
    /\ last = Response("addMeal", 404)
    /\ plans # {}
    /\ slots # {}

\* ---------------------------------------------------------------- day view
\* The calendar's weekday of a YYYY-MM-DD string, read digit by digit
\* (proleptic Gregorian, by the month-table congruence).
YearOf(str) ==
    1000 * DigitValue(str[1]) + 100 * DigitValue(str[2])
        + 10 * DigitValue(str[3]) + DigitValue(str[4])
MonthOf(str) == 10 * DigitValue(str[6]) + DigitValue(str[7])
DayOf(str) == 10 * DigitValue(str[9]) + DigitValue(str[10])

GregorianWeekday(str) ==
    LET y == IF MonthOf(str) < 3 THEN YearOf(str) - 1 ELSE YearOf(str)
        t == <<0, 3, 2, 5, 0, 3, 5, 1, 4, 6, 2, 4>>
        n == (y + (y \div 4) - (y \div 100) + (y \div 400) + t[MonthOf(str)]
                + DayOf(str)) % 7
    IN  <<"Sunday", "Monday", "Tuesday", "Wednesday", "Thursday", "Friday",
          "Saturday">>[n + 1]

\* ------------------------------------------ the meal plan view and server
\* cells of the grid the user opens
ViewClicks == {<<"Wednesday", "Breakfast">>, <<"Monday", "Lunch">>}

\* The view is opened on plan 1 or 2; alice has plan 1 with meal 1 as
\* Monday's Lunch and Wednesday's Breakfast.
InitView ==
    /\ plans = {[id |-> 1, user_id |-> "alice", created_at |-> 0, updated_at |-> 0]}
    /\ slots = {[id |-> 1, meal_plan_id |-> 1, meal_id |-> 1,
                 day_of_week |-> "Monday", meal_time |-> "Lunch",
                 created_at |-> 0, updated_at |-> 0],
                [id |-> 2, meal_plan_id |-> 1, meal_id |-> 1,
                 day_of_week |-> "Wednesday", meal_time |-> "Breakfast",
                 created_at |-> 0, updated_at |-> 0]}
    /\ assigned = {<<1, "Monday", "Lunch", 1>>, <<1, "Wednesday", "Breakfast", 1>>}
    /\ now = 0
    /\ nextPlanId = 2
    /\ nextSlotId = 3
    /\ last = NoResponse
    /\ nreq = 0
    /\ workers = [w \in 1..MaxWorkers |-> Idle]
    /\ InitDayView
    /\ taskTable = {}
    /\ tz = 0
    /\ date = <<>>
    /\ \E id \in ReqPlanIds : view = MealPlanView(id)
    /\ call = [NoCall EXCEPT !.pc = "mounting"]

\* a request of another screen or device handled by the server
ServedView ==
    nreq < MaxViewRequests /\ Arrive /\ UNCHANGED <<workers, clientVars>>

NextView ==
    \/ \E c \in ViewClicks : HandleSlotClick(c[1], c[2])
    \/ \E value \in {TRUE, FALSE} : SetRepeatForAllDays(value)
    \/ CancelSelectMeal
    \/ \E meal \in Meals : call.n < MaxGestures /\ HandleAddMealToSlot(meal)
    \/ AddMealToPlan
    \/ AddMealToPlanThrows
    \/ fetchMealPlan
    \/ \E u \in Users : ServedView /\ Store(u, "Plan")
    \/ \E id \in ReqPlanIds : ServedView /\ Destroy(SessionUser, id)

SpecView == InitView /\ [][NextView]_vars

\* The meal plan view alone, for up to MaxBatches assignments one after the
\* other. Every request awaited by a handler settles: it is answered or it
\* fails.
NextSubmit ==
    \/ \E c \in ViewClicks : HandleSlotClick(c[1], c[2])
    \/ \E value \in {TRUE, FALSE} : SetRepeatForAllDays(value)
    \/ CancelSelectMeal
    \/ \E meal \in Meals : call.n < MaxBatches /\ HandleAddMealToSlot(meal)
    \/ AddMealToPlan
    \/ AddMealToPlanThrows
    \/ fetchMealPlan

SpecSubmit ==
    /\ InitView
    /\ [][NextSubmit]_vars
    /\ WF_vars(AddMealToPlan \/ AddMealToPlanThrows)
    /\ WF_vars(fetchMealPlan)

\* ------------------------------------------ the day view, date by date
DateYears == {50, 99, 100, 999, 1000, 1600, 1900, 1969, 1970, 2000, 2024, 2100}
DateMonthDays == {<<1, 1>>, <<2, 28>>, <<2, 29>>, <<3, 1>>, <<3, 6>>, <<12, 31>>}
DateOffsets == {-480, 0, 330, 840}

\* YYYY-MM-DD with a real month and day of that month
WellFormed(str) ==
    /\ Len(str) = 10
    /\ \A i \in {1, 2, 3, 4, 6, 7, 9, 10} : IsDigit(str[i])
    /\ str[5] = "-" /\ str[8] = "-"
    /\ MonthOf(str) \in 1..12
    /\ DayOf(str) >= 1
    /\ DayOf(str) <= <<31, 28, 31, 30, 31, 30, 31, 31, 30, 31, 30, 31>>[MonthOf(str)]
                        + (IF /\ MonthOf(str) = 2
                              /\ \/ YearOf(str) % 400 = 0
                                 \/ YearOf(str) % 4 = 0 /\ YearOf(str) % 100 # 0
                           THEN 1 ELSE 0)

DateStrings ==
    {str \in {Ymd(y, md[1], md[2]) : y \in DateYears, md \in DateMonthDays} :
        WellFormed(str)}

\* Date parameters that are not a calendar date: none (dateKey is ""), a
\* day or a month that does not exist, fields without padding, and words.
MalformedDates ==
    {<<>>, Ymd(2024, 2, 30), Ymd(2024, 13, 45), Ymd(2024, 0, 0),
     <<"2", "0", "2", "4", "-", "3", "-", "6">>,
     <<"t", "o", "d", "a", "y">>}

\* deadlines of the task next to the date shown
Deadlines(dateKey) ==
    {Null, dateKey, dateKey \o TimeOfDay, Ymd(2024, 3, 1),
     Ymd(2024, 3, 1) \o TimeOfDay, Ymd(2024, 3, 2) \o TimeOfDay}

InitDate ==
    /\ InitServer
    /\ InitDayView
    /\ InitMealPlanView
    /\ tz \in DateOffsets
    /\ date \in DateStrings \cup MalformedDates
    /\ \E deadline \in Deadlines(date) :
         taskTable =
            {[id |-> 1, user_id |-> "alice", deadline |-> deadline,
              is_completed |-> FALSE],
             [id |-> 2, user_id |-> "alice", deadline |-> Null,
              is_completed |-> FALSE],
             [id |-> 3, user_id |-> "bob", deadline |-> date,
              is_completed |-> FALSE]}

\* The view is mounted on the date and fetches its data once.
NextDate ==
    \/ \E f \in 1..MaxFetch : DateEffect(f, date)
    \/ \E f \in 1..MaxFetch : FetchMealPlans(f)
    \/ \E f \in 1..MaxFetch : FetchTasks(f)

SpecDate == InitDate /\ [][NextDate]_vars

\* C8: the weekday a fetchDayData call works with is the proleptic-Gregorian
\* weekday of its well-formed YYYY-MM-DD date, the same for every timezone
\* offset of the process; "2024-03-01" gives Friday.
C8_WeekdayOfDate ==
    \A f \in 1..MaxFetch :
       (fetches[f].pc # "idle" /\ WellFormed(fetches[f].dateKey)) =>
          /\ fetches[f].dayOfWeek = GregorianWeekday(fetches[f].dateKey)
          /\ \A offset \in DateOffsets :
                getDayOfWeek(fetches[f].dateKey, offset) = fetches[f].dayOfWeek
          /\ fetches[f].dateKey = Ymd(2024, 3, 1) => fetches[f].dayOfWeek = "Friday"

\* C9: the tasks displayed by a completed fetchDayData call for a well-formed
\* date are exactly the tasks of the user whose deadline is set and whose
\* year-month-day part is the date, whatever time of day follows it.
C9_TasksDueOnDate ==
    (/\ fetches[1].pc = "done"
     /\ ~fetches[1].failed
     /\ WellFormed(fetches[1].dateKey))
    => tasks = {t \in taskTable : /\ t.user_id = SessionUser
                                  /\ t.deadline # Null
                                  /\ SubSeq(t.deadline, 1, 10) = fetches[1].dateKey}

\* C3: when the last request of a repeat-for-all-days assignment of meal m
\* to meal time t succeeds (the loop stops at the first failure, so all seven
\* did), plan p has exactly seven slots of meal time t, one for each of
\* Monday..Sunday and each with meal m, whatever the plan had there before,
\* and its slots of the other meal times are those it had when the
\* assignment began.
C3_RepeatForAllDays ==
    [][(call.pc = "adding" /\ call.repeat /\ call'.pc = "fetching") =>
          LET p == view.id
              t == call.slot.time
              m == call.meal
          IN  /\ Cardinality({s \in slots' : s.meal_plan_id = p /\ s.meal_time = t}) = 7
              /\ \A d \in {"Monday", "Tuesday", "Wednesday", "Thursday",
                           "Friday", "Saturday", "Sunday"} :
                    \E s \in slots' : /\ s.meal_plan_id = p
                                      /\ s.meal_time = t
                                      /\ s.day_of_week = d
                                      /\ s.meal_id = m
              /\ {s \in slots' : s.meal_plan_id = p /\ s.meal_time # t}
                    = {s \in call.before : s.meal_plan_id = p /\ s.meal_time # t}]_vars

\* A repeat-for-all-days assignment has succeeded on a plan that had the
\* meal time assigned to another meal on some day, and a slot of another
\* meal time.
C3_Witness ==
    /\ call.pc = "fetching"
    /\ call.repeat
    /\ view.alert = "Success"
    /\ \E s \in call.before : /\ s.meal_plan_id = view.id
                              /\ s.meal_time = call.slot.time
                              /\ s.meal_id # call.meal
    /\ \E s \in call.before : /\ s.meal_plan_id = view.id
                              /\ s.meal_time # call.slot.time
    /\ Cardinality({s \in slots : s.meal_plan_id = view.id
                                  /\ s.meal_time = call.slot.time}) = 7

\* C6: a fetchDayData call that found no meal plans of the user and ran to
\* its end without error, with no other call of the view in flight and the
\* user still without plans, leaves every meal time (Breakfast, Lunch,
\* Dinner, Snack) without a meal and the tasks due on the date displayed.
C6_NoPlansNoMeals ==
    [][\A f \in 1..MaxFetch :
          (/\ fetches[f].pc = "getTasks"
           /\ fetches'[f].pc = "done"
           /\ ~fetches'[f].failed
           /\ fetches[f].sortedPlans = <<>>
           /\ PlansOf(SessionUser) = {}
           /\ \A g \in 1..MaxFetch :
                 g # f => /\ fetches[g].pc \in {"idle", "done"}
                          /\ fetches[f].taskId # 0)
          => /\ \A i \in DOMAIN mealTimes : getMealForTime(mealTimes[i])' = NoMeal
             /\ tasks' = {t \in taskTable : /\ t.user_id = SessionUser
                                            /\ t.deadline # Null
                                            /\ SubSeq(t.deadline, 1, 10) = fetches[f].dateKey}
             /\ ~loading']_vars

C11_InvalidNoWrite ==
    [][\/ /\ last' = Response("addMeal", 422)
          /\ slots' = slots
          /\ plans' = plans
       \/ last'.op # "addMeal"
       \/ \A u \in Users, id \in ReqPlanIds, r \in ReqAddMeal :
             (\/ r[1] \notin Meals
              \/ r[2] \notin {"Monday", "Tuesday", "Wednesday", "Thursday",
                              "Friday", "Saturday", "Sunday"}
              \/ r[3] \notin {"Breakfast", "Lunch", "Dinner", "Snack"})
             => ~AddMeal(u, id, r[1], r[2], r[3])]_vars

\* An addMeal was refused by validation while plans and slots exist.
C11_Witness ==
    /\ last = Response("addMeal", 422)
    /\ slots # {}
    /\ plans # {}

\* C12: a touch of an existing plan by its owner is answered 200 and sets
\* that plan's updated_at to the current time, leaving the other plans as
\* they were; a touch of an existing plan by another user is answered 403
\* (Unauthorized) and leaves every plan, and so every user's active plan,
\* unchanged.
C12_TouchOwnerOnly ==
    [][\A u \in Users, id \in ReqPlanIds :
          (/\ last'.op = "touch"
           /\ \E p \in plans : p.id = id
           /\ Touch(u, id))
          => \E p \in plans :
                /\ p.id = id
                /\ IF p.user_id = u
                   THEN /\ last' = Response("touch", 200)
                        /\ plans' = (plans \ {p})
                              \cup {[id |-> p.id, user_id |-> p.user_id,
                                     created_at |-> p.created_at,
                                     updated_at |-> now]}
                   ELSE /\ last' = Response("touch", 403)
                        /\ plans' = plans
                        /\ \A v \in Users : ActiveIds(v)' = ActiveIds(v)]_vars

\* A touch by a user who does not own the plan was refused, the plan having
\* been updated before the current time.
C12_Witness ==
    /\ last = Response("touch", 403)
    /\ \E p \in plans : p.updated_at < now

\* C13: when the k-th request of a repeat-for-all-days assignment fails, the
\* failure takes nothing back: the step leaves the slots as they are, and
\* while the plan exists the slots written by requests 1..k-1 (the first k-1
\* days, meal time t, meal m) are in the store.
C13_EarlierUpsertsStay ==
    [][(call.pc = "adding" /\ call.repeat /\ call'.pc = "idle") =>
          /\ slots' = slots
          /\ OwnedPlan(SessionUser, view.id)' # {} =>
                \A j \in 1..(call.i - 1) :
                   \E s \in slots' :
                      /\ s.meal_plan_id = view.id
                      /\ s.day_of_week =
                            <<"Monday", "Tuesday", "Wednesday", "Thursday",
                              "Friday", "Saturday", "Sunday">>[j]
                      /\ s.meal_time = call.slot.time
                      /\ s.meal_id = call.meal]_vars

\* The fourth request of a repeat-for-all-days assignment failed: Monday to
\* Wednesday carry the meal, and Thursday has no slot of the meal time.
C13_Witness ==
    /\ call.pc = "idle"
    /\ call.repeat
    /\ call.i = 4
    /\ view.alert = "Error"
    /\ \A d \in {"Monday", "Tuesday", "Wednesday"} :
          \E s \in slots : /\ s.meal_plan_id = view.id
                           /\ s.day_of_week = d
                           /\ s.meal_time = call.slot.time
                           /\ s.meal_id = call.meal
    /\ ~\E s \in slots : /\ s.meal_plan_id = view.id
                         /\ s.day_of_week = "Thursday"
                         /\ s.meal_time = call.slot.time

\* C14: when a repeat-for-all-days assignment fails after at least one of
\* its requests succeeded, what the view reports is not the plain error of
\* an assignment that wrote nothing, but a report of how many days succeeded
\* and how many failed.
C14_PartialSuccessReport ==
    [][(call.pc = "adding" /\ call.repeat /\ call.i > 1 /\ call'.pc = "idle")
          => view'.alert # "Error"]_vars

\* C15: an addMeal that creates or updates a slot leaves every plan row, so
\* the plan's updated_at, and every user's active plan as they were; the
\* updated_at of an existing plan changes only by a successful touch.
C15_UpsertKeepsActivePlan ==
    [][/\ \/ last'.op # "addMeal"
          \/ last'.status \notin {200, 201}
          \/ ~\E u \in Users, id \in ReqPlanIds, r \in ReqAddMeal :
                AddMeal(u, id, r[1], r[2], r[3])
          \/ /\ plans' = plans
             /\ \A u \in Users : ActivePlans(u)' = ActivePlans(u)
       /\ \/ plans' = plans
          \/ \A p \in plans, q \in plans' :
                (p.id = q.id /\ p.updated_at # q.updated_at)
                => last' = Response("touch", 200)]_vars

\* A slot was created now in a plan that is not its owner's active plan.
C15_Witness ==
    /\ last = Response("addMeal", 201)
    /\ \E s \in slots, p \in plans :
          /\ s.created_at = now
          /\ p.id = s.meal_plan_id
          /\ p.updated_at < now
          /\ \E q \in plans : ActiveIds(p.user_id) = {q.id} /\ q.id # p.id

\* C16: after a destroy of plan id answered 200 no slot of that plan is in
\* the store, and after every step every slot is the slot of a plan that
\* exists.
C16_DeleteCascades ==
    [][/\ \A u \in Users, id \in ReqPlanIds :
             (last' = Response("destroy", 200) /\ Destroy(u, id))
             => /\ ~\E p \in plans' : p.id = id
                /\ ~\E s \in slots' : s.meal_plan_id = id
       /\ \A s \in slots' : \E p \in plans' : p.id = s.meal_plan_id]_vars

\* A plan that had a slot was deleted by the third request, and its slot
\* went with it.
C16_Witness ==
    /\ last = Response("destroy", 200)
    /\ nreq = 3
    /\ nextSlotId = 2
    /\ slots = {}

\* C17: an addMeal of an owner for a slot of the plan that is occupied
\* answers 200 and rewrites that row in place: the row keeps its id, plan,
\* day, time and creation time, takes the requested meal and now as its
\* modification time, every other row stays, and the number of rows stays.
C17_OverwriteInPlace ==
    [][\A u \in Users, id \in ReqPlanIds, r \in ReqAddMeal :
          (/\ last'.op = "addMeal"
           /\ Validated(r[1], r[2], r[3])
           /\ OwnedPlan(u, id) # {}
           /\ Existing(id, r[2], r[3]) # {}
           /\ AddMeal(u, id, r[1], r[2], r[3]))
          => /\ last' = Response("addMeal", 200)
             /\ Cardinality(slots') = Cardinality(slots)
             /\ \E s \in Existing(id, r[2], r[3]) : \E t \in slots' :
                   /\ t.id = s.id
                   /\ t.meal_plan_id = s.meal_plan_id
                   /\ t.day_of_week = s.day_of_week
                   /\ t.meal_time = s.meal_time
                   /\ t.created_at = s.created_at
                   /\ t.meal_id = r[1]
                   /\ t.updated_at = now
                   /\ slots' \ {t} = slots \ {s}]_vars

\* A slot created earlier now carries another meal's later update, and no
\* second row was made.
C17_Witness ==
    /\ last = Response("addMeal", 200)
    /\ nextSlotId = 2
    /\ \E s \in slots : /\ s.id = 1
                        /\ s.created_at < s.updated_at
                        /\ s.updated_at = now
                        /\ s.meal_id = 2
    /\ Cardinality(slots) = 1

\* C18: when two or more plans of a user have equal updated_at, every
\* evaluation of the active plan over the stored rows selects the same plan.
C18_TieBreakDeterministic ==
    \A u \in Users :
        (\E p, q \in PlansOf(u) : p.id # q.id /\ p.updated_at = q.updated_at)
        => Cardinality(ActiveIds(u)) = 1

\* C19: the meal half and the task half of a fetch do not depend on each
\* other: a fetch that ends because loading the plans or the active plan's
\* slots failed has still set the tasks due on its date, and a fetch that
\* ends because loading the tasks failed has still set the meals it loaded.
C19_HalvesIndependent ==
    [][\A f \in 1..MaxFetch :
          /\ (fetches[f].pc \in {"getMealPlans", "getMealPlan"}
                 /\ fetches'[f].pc = "done")
             => tasks' = DayTasks(GetTasks(SessionUser), fetches[f].dateKey, tz)
          /\ (fetches[f].pc = "getTasks" /\ fetches'[f].pc = "done")
             => meals' = meals]_vars

\* C20: a fetchDayData call for a date parameter that is not a well-formed
\* calendar date does not resolve the day: it derives no weekday, and when
\* it has ended it has ended as failed.
C20_MalformedDateRejected ==
    \A f \in 1..MaxFetch :
       (fetches[f].pc # "idle" /\ ~WellFormed(fetches[f].dateKey)) =>
          /\ fetches[f].dayOfWeek \notin Range(daysOfWeek)
          /\ fetches[f].pc = "done" => fetches[f].failed

\* C21: no request of a user a changes, deletes or returns a plan of
\* another user b or a slot of such a plan: every store, destroy, addMeal,
\* touch and removeMeal step of a leaves b's plans and their slots as they
\* were, and index and show answer a with rows of a's plans only.
C21_OwnPlansOnly ==
    [][\A a \in Users : \A b \in Users \ {a} :
          LET PlansOfB == {p \in plans : p.user_id = b}
              SlotsOfB == {s \in slots : \E p \in plans :
                              p.id = s.meal_plan_id /\ p.user_id = b}
          IN
          /\ (\/ \E name \in {"", "Plan"} : Store(a, name)
              \/ \E id \in ReqPlanIds : Destroy(a, id)
              \/ \E id \in ReqPlanIds : Touch(a, id)
              \/ \E id \in ReqPlanIds, r \in ReqAddMeal :
                    AddMeal(a, id, r[1], r[2], r[3])
              \/ \E id \in 1..nextSlotId : RemoveMeal(a, id))
             => /\ PlansOfB \subseteq plans'
                /\ SlotsOfB \subseteq slots'
                /\ \A s \in slots' \ slots :
                      \E p \in plans : p.id = s.meal_plan_id /\ p.user_id = a
          /\ \A meal_plans \in Index(a) : \A i \in 1..Len(meal_plans) :
                meal_plans[i] \notin PlansOfB
          /\ \A id \in ReqPlanIds : Show(a, id) \cap SlotsOfB = {}]_vars

\* Both users own a plan, one of them with a slot, and a destroy request
\* for a plan that exists has been refused.
C21_Witness ==
    /\ last = Response("destroy", 404)
    /\ \A id \in 1..2 : \E p \in plans : p.id = id
    /\ \E p, q \in plans : p.user_id # q.user_id
    /\ slots # {}

C23_NoRetry ==
    [][/\ (call.pc = "adding" /\ AddMealToPlan /\ last'.status \notin {200, 201})
          => /\ call'.pc = "idle"
             /\ view'.alert = "Error"
             /\ ~view'.isSubmitting
             /\ slots' = slots
       /\ (call.pc = "adding" /\ AddMealToPlan /\ last'.status \in {200, 201})
          => /\ \/ call'.pc = "fetching"
                \/ call'.pc = "adding" /\ call'.i = call.i + 1
             /\ \A s \in slots' \ slots :
                   /\ s.meal_plan_id = view.id
                   /\ s.day_of_week = (IF call.repeat
                                       THEN <<"Monday", "Tuesday", "Wednesday",
                                              "Thursday", "Friday", "Saturday",
                                              "Sunday">>[call.i]
                                       ELSE call.slot.day)
                   /\ s.meal_time = call.slot.time
             /\ Cardinality(slots' \ slots) <= 1
       /\ (call.pc # "adding" /\ last'.op = "addMeal") => last' = last]_vars

\* A request of a handler was answered 404, and the handler has ended with
\* the error alert.
C23_Witness ==
    /\ call.pc = "idle"
    /\ call.n > 0
    /\ last = Response("addMeal", 404)
    /\ view.alert = "Error"
    /\ ~view.isSubmitting

\* C24: an addMeal that passes validation and finds the owned plan answers
\* 201 exactly when the plan had no slot for the day and time before the
\* call, and 200 exactly when it had one; a removeMeal answered 200 leaves
\* no slot for the removed slot's plan, day and time, so the next addMeal
\* for them answers 201 again.
C24_StatusTellsBranch ==
    [][/\ \A u \in Users, id \in ReqPlanIds, r \in ReqAddMeal :
             LET had == \E s \in slots : /\ s.meal_plan_id = id
                                         /\ s.day_of_week = r[2]
                                         /\ s.meal_time = r[3]
             IN  (/\ last'.op = "addMeal"
                  /\ last'.status \in {200, 201}
                  /\ AddMeal(u, id, r[1], r[2], r[3]))
                 => /\ last'.status = 201 <=> ~had
                    /\ last'.status = 200 <=> had
       /\ \A u \in Users, id \in 1..nextSlotId :
             (last' = Response("removeMeal", 200) /\ RemoveMeal(u, id))
             => \A s \in slots : s.id = id =>
                   ~\E t \in slots' : /\ t.meal_plan_id = s.meal_plan_id
                                      /\ t.day_of_week = s.day_of_week
                                      /\ t.meal_time = s.meal_time]_vars

\* The fourth request is an addMeal answered 201 for the only slot of the
\* store, after an earlier slot was made and removed.
C24_Witness ==
    /\ last = Response("addMeal", 201)
    /\ nreq = 4
    /\ nextSlotId = 3
    /\ Cardinality(slots) = 1
    /\ Cardinality(plans) = 1
    /\ \E s \in slots : s.id = 2 /\ s.day_of_week = "Monday"

\* C25: a repeat-for-all-days assignment sends its requests one after
\* another for Monday, Tuesday, ..., Sunday and stops at the first failing
\* one. While it runs and after it has ended, the days it has written are
\* the days before the one of its current, or failed, request: each of them
\* has the meal (as long as the plan is there), and for that day and every
\* later one the plan has no slot of the meal time that it did not have
\* when the assignment began.
C25_PrefixOfWeek ==
    (/\ call.repeat
     /\ \/ call.pc = "adding"
        \/ call.pc = "idle" /\ view.alert = "Error") =>
        LET week == <<"Monday", "Tuesday", "Wednesday", "Thursday", "Friday",
                      "Saturday", "Sunday">>
            At(j) == {s \in slots : /\ s.meal_plan_id = view.id
                                    /\ s.day_of_week = week[j]
                                    /\ s.meal_time = call.slot.time}
        IN  /\ call.i \in 1..7
            /\ \A j \in call.i..7 : At(j) \subseteq call.before
            /\ OwnedPlan(SessionUser, view.id) # {} =>
                  \A j \in 1..(call.i - 1) : \E s \in At(j) : s.meal_id = call.meal

\* The batch stopped at Wednesday's request: Monday and Tuesday have the
\* meal in new slots, and no day from Wednesday on has a new slot.
C25_Witness ==
    /\ call.repeat
    /\ call.pc = "idle"
    /\ call.i = 3
    /\ view.alert = "Error"
    /\ call.slot.time = "Breakfast"
    /\ \A d \in {"Monday", "Tuesday"} :
          \E s \in slots \ call.before : /\ s.meal_plan_id = view.id
                                         /\ s.day_of_week = d
                                         /\ s.meal_time = "Breakfast"
                                         /\ s.meal_id = call.meal
    /\ ~\E s \in slots \ call.before : s.day_of_week \notin {"Monday", "Tuesday"}

\* C26: whenever a handleAddMealToSlot call has finished, with success or
\* with an error, no other request has reached the server and the view's
\* last fetch of the plan was answered, the slots the view shows are the
\* slots stored for the plan.
C26_ViewShowsStore ==
    (call.pc = "idle" /\ call.n > 0 /\ nreq = 0 /\ call.fetched)
    => view.mealPlanMeals = {s \in slots : s.meal_plan_id = view.id}

\* C27: a refetch of the day view after a task toggle (so after the
\* earlier fetch has ended) that runs to its end without error, and whose
\* list of plans is still a list of the user's plans in the store, leaves
\* as the meals displayed slots of the plan it took as active on the call's
\* weekday, and no meals when the user has no plan.
C27_MealsFollowActivePlan ==
    [][\A f \in 1..MaxFetch :
          (/\ fetches[f].pc = "getTasks"
           /\ fetches'[f].pc = "done"
           /\ ~fetches'[f].failed
           /\ fetches[f].taskId # 0
           /\ \A g \in 1..MaxFetch : g # f => fetches[g].pc \in {"idle", "done"}
           /\ \E meal_plans \in Index(SessionUser) :
                 fetches[f].sortedPlans = SortedPlans(meal_plans))
          => IF fetches[f].sortedPlans = <<>>
             THEN meals' = {}
             ELSE \A m \in meals' :
                     /\ m.meal_plan_id = fetches[f].sortedPlans[1].id
                     /\ m.day_of_week = fetches[f].dayOfWeek]_vars

\* C28: once every fetchDayData call of the view has completed without
\* error, with no task toggled and no request of another client handled in
\* the meantime, the tasks displayed are those due on the date requested
\* last, and the meals displayed are of that date's weekday.
C28_LastDateWins ==
    (/\ \A f \in 1..MaxFetch :
           /\ fetches[f].pc \in {"idle", "done"}
           /\ ~fetches[f].failed
           /\ fetches[f].taskId = 0
     /\ \E f \in 1..MaxFetch : fetches[f].pc = "done"
     /\ nreq = 0)
    => /\ tasks = DayTasks(GetTasks(SessionUser), date, tz)
       /\ \A m \in meals : m.day_of_week = getDayOfWeek(date, tz)

\* C29: right after a store answered 201 the user's active plan is the new
\* plan, whatever plan was active or touched before.
C29_NewPlanIsActive ==
    [][\A u \in Users :
          (last' = Response("store", 201) /\ Store(u, "Plan"))
          => ActiveIds(u)' = {nextPlanId}]_vars

\* C30: at most one assignment batch of the meal plan view is in flight.
\* A batch starts only while isSubmitting is false and no handler call is
\* running, and sets isSubmitting; isSubmitting is true as long as the batch
\* awaits a request or its refetch; it is cleared only by the end of the
\* batch; and every batch that has started comes to an end with
\* isSubmitting false, whether its requests succeed or fail.
C30_OneBatchAtATime ==
    /\ [](call.pc \in {"adding", "fetching"} => view.isSubmitting)
    /\ [][/\ call'.n # call.n
             => /\ ~view.isSubmitting
                /\ call.pc = "idle"
                /\ view'.isSubmitting
                /\ call'.pc = "adding"
                /\ call'.n = call.n + 1
          /\ (view.isSubmitting /\ ~view'.isSubmitting)
             => /\ call.pc \in {"adding", "fetching"}
                /\ call'.pc = "idle"]_vars
    /\ (view.isSubmitting ~> (~view.isSubmitting /\ call.pc = "idle"))

\* The second batch of the view is awaiting a request of its loop, after
\* the first one has ended.
C30_Witness ==
    /\ call.n = 2
    /\ call.pc = "adding"
    /\ call.repeat
    /\ call.i = 2
    /\ view.isSubmitting
    /\ view.showSelectMeal

====
